---- MODULE Spec2Model ----
(***************************************************************************)
(* A model of the trivia bot's question lifecycle and answer adjudication  *)
(* (src/cogs/questions.py), its store (src/services/db.py) and its         *)
(* question source (src/services/groq_client.py).                          *)
(*                                                                         *)
(* The bot is one asyncio process: a handler runs without interruption    *)
(* from one await to the next, so every action below is one such segment.  *)
(***************************************************************************)
EXTENDS Integers, Sequences, FiniteSets, TLC

\* ---------------------------------------------------------------- bounds
NumUsers == 2
NumChannels == 2
NumTasks == 2
MaxQuestions == 2
MaxResponses == 2
MaxTime == 1
\* Clock ticks per day: the granularity at which the model reads the clock.
DayTicks == 1
\* The longest list of models the configuration gives.
MaxListed == 3
\* The guilds the bot is a member of, and the roles of a guild.
NumGuilds == 3
NumRoles == 1
\* Seconds of time.time() followed after the start.
MaxSeconds == 7

Users == 1..NumUsers
Channels == 1..NumChannels
Tasks == 1..NumTasks
Times == 0..MaxTime
Guilds == 1..NumGuilds
Roles == 1..NumRoles

\* ------------------------------------------------------------- constants
\* The id that stands for "no row" / Python's None: autoincrement ids start at 1.
NoId == 0
\* The award for a correct answer.
Award == 10
\* The four answer letters of a question.
Letters == {"A", "B", "C", "D"}
\* The correct letters the modelled question source hands to publish.
PayloadAnswers == {"B"}
\* The letters the modelled users submit.
Choices == {"A", "B"}
\* The display names a user may carry when answering.
Names == {"name"}

VARIABLES
    now,               \* datetime.utcnow(), in ticks
    questions,         \* table questions: a sequence of rows, id = index
    responses,         \* table responses: a sequence of rows, id = index
    users,             \* table users: user id -> row, for the ids that have one
    active_questions,  \* QuestionCog.active_questions: channel id -> question id
    publish_lock,      \* QuestionCog.publish_lock: TRUE when held
    task,              \* the publish invocations: task -> [pc, channel, qid]
    views,             \* question ids whose answer buttons are on screen
    credited,          \* history: the <<question, user>> pairs told "correct"
    gen,               \* a GroqClient.generate_question call: its client and progress
    norm,              \* a normalise_answer call: its argument and what it returns
    guild_config,      \* table guild_config: guild id -> row, for the ids that have one
    dispatch,          \* a _dispatch_daily_questions run: its guilds and progress
    active_views,      \* QuestionCog.active_views: channel id -> question id of the view
    last_question_time, \* QuestionCog.last_question_time: channel id -> time.time()
    clock,             \* time.time(), in seconds
    handler,           \* an on_message call on its way to the view cleanup
    request,           \* the manual question request each task last handled
    published          \* history: the publishes that came back, with their request

vars == <<now, questions, responses, users, active_questions, publish_lock,
          task, views, credited, gen, norm, guild_config, dispatch,
          active_views, last_question_time, clock, handler, request, published>>

\* The bot's own state, and the state of the calls followed on their own.
botVars == <<now, questions, responses, users, active_questions, publish_lock,
             task, views, credited>>
guildVars == <<guild_config, dispatch>>
\* The registries of views and of publish times, and the handlers that use them.
channelVars == <<active_views, last_question_time, clock, handler, request,
                 published>>
callVars == <<gen, norm, guildVars, channelVars>>

dbVars == <<questions, responses, users>>

\* ------------------------------------------------------------------ store
QuestionIds == 1..Len(questions)
ResponseIds == 1..Len(responses)

\* Question rows are ordered by created_at; within one tick of the model's
\* clock the row inserted later (the larger id) carries the later timestamp.
Before(t1, id1, t2, id2) == t1 < t2 \/ (t1 = t2 /\ id1 < id2)

\* datetime.utcnow() as record_response reads it. Nothing reads how long ago
\* an answer was given, only which came first, so the stamp of an answer is
\* its place in the order of the inserts.
AnswerStamp == Len(responses) + 1

\* db.get_question
get_question(question_id) ==
    IF question_id \in QuestionIds THEN question_id ELSE NoId

\* A get_latest_question_for_channel without the filter on channel_id.
get_latest_question_of_any_channel(channel_id) ==
    IF QuestionIds = {} THEN NoId
    ELSE CHOOSE q \in QuestionIds : \A o \in QuestionIds \ {q} :
            Before(questions[o].created_at, o, questions[q].created_at, q)

\* db.get_latest_question_for_channel
get_latest_question_for_channel(channel_id) ==
    LET mine == {q \in QuestionIds : questions[q].channel_id = channel_id}
    IN IF mine = {} THEN NoId
       ELSE CHOOSE q \in mine : \A o \in mine \ {q} :
                Before(questions[o].created_at, o, questions[q].created_at, q)

\* A has_user_answered whose query matches no row.
has_user_answered_no_match(question_id, user_id) == FALSE

\* db.has_user_answered
has_user_answered(question_id, user_id) ==
    \E r \in ResponseIds : /\ responses[r].question_id = question_id
                           /\ responses[r].user_id = user_id

CorrectResponses(question_id) ==
    {r \in ResponseIds : /\ responses[r].question_id = question_id
                         /\ responses[r].is_correct = 1}

\* A get_first_correct_response whose filter matches no row.
get_first_correct_response_no_match(question_id) == NoId

\* db.get_first_correct_response: the id of the row, NoId when there is none
get_first_correct_response(question_id) ==
    LET mine == CorrectResponses(question_id)
    IN IF mine = {} THEN NoId
       ELSE CHOOSE r \in mine : \A o \in mine \ {r} :
                responses[r].answered_at < responses[o].answered_at

NewUser(username) ==
    [name |-> username, score |-> 0, correct |-> 0, wrong |-> 0,
     last_answer_time |-> NoId]

\* A record_response that counts every answer as wrong as well (the `else`
\* of lines 240-241 lost).
ScoredUserNoElse(user_id, username, is_correct) ==
    LET user == IF user_id \in DOMAIN users THEN users[user_id]
                ELSE NewUser(username)
    IN [user EXCEPT !.last_answer_time = AnswerStamp,
                    !.name = username,
                    !.score = IF is_correct THEN @ + Award ELSE @,
                    !.correct = IF is_correct THEN @ + 1 ELSE @,
                    !.wrong = @ + 1]

\* A record_response that takes Award off the score of a wrong answer.
ScoredUserPenalised(user_id, username, is_correct) ==
    LET user == IF user_id \in DOMAIN users THEN users[user_id]
                ELSE NewUser(username)
    IN [user EXCEPT !.last_answer_time = AnswerStamp,
                    !.name = username,
                    !.score = IF is_correct THEN @ + Award ELSE @ - Award,
                    !.correct = IF is_correct THEN @ + 1 ELSE @,
                    !.wrong = IF is_correct THEN @ ELSE @ + 1]

\* The user row record_response writes (db.py 229-241).
ScoredUser(user_id, username, is_correct) ==
    LET user == IF user_id \in DOMAIN users THEN users[user_id]
                ELSE NewUser(username)
    IN [user EXCEPT !.last_answer_time = AnswerStamp,
                    !.name = username,
                    !.score = IF is_correct THEN @ + Award ELSE @,
                    !.correct = IF is_correct THEN @ + 1 ELSE @,
                    !.wrong = IF is_correct THEN @ ELSE @ + 1]

\* A table responses without the constraint.
UniqueNeverViolated(question_id, user_id) == FALSE

\* The UNIQUE(question_id, user_id) constraint of table responses.
UniqueViolated(question_id, user_id) == has_user_answered(question_id, user_id)

\* db.record_response: one transaction. The flush of the new row fails on the
\* unique constraint, the session rolls back and the error is raised.
record_response(question_id, user_id, username, answer, is_correct) ==
    IF UniqueViolated(question_id, user_id)
    THEN [raised |-> TRUE, users |-> users, responses |-> responses]
    ELSE [raised |-> FALSE,
          users |-> [u \in DOMAIN users \cup {user_id} |->
                        IF u = user_id
                        THEN ScoredUser(user_id, username, is_correct)
                        ELSE users[u]],
          responses |-> Append(responses,
                        [question_id |-> question_id, user_id |-> user_id,
                         answer |-> answer,
                         is_correct |-> IF is_correct THEN 1 ELSE 0,
                         answered_at |-> AnswerStamp])]

\* db.record_question
record_question(correct_answer, channel_id) ==
    Append(questions, [channel_id |-> channel_id, correct_answer |-> correct_answer,
                       created_at |-> now, message_id |-> NoId])

\* db.attach_message_id
attach_message_id(question_id, message_id) ==
    IF question_id \in QuestionIds
    THEN [questions EXCEPT ![question_id].message_id = message_id]
    ELSE questions

\* ------------------------------------------------------- runtime helpers
\* A pop that leaves the key in place.
PopKeeps(d, key) == d

\* dict.pop(key, None)
Pop(d, key) == [k \in DOMAIN d \ {key} |-> d[k]]
\* d[key] = value
Put(d, key, value) == [k \in DOMAIN d \cup {key} |-> IF k = key THEN value ELSE d[k]]
\* dict.get(key), NoId for None
Get(d, key) == IF key \in DOMAIN d THEN d[key] ELSE NoId

\* timedelta.days
Days(delta) == delta \div DayTicks

\* A _resolve_question_for_channel without the fallback of lines 203-207.
ResolveWithTrackedOnly(active, channel_id) ==
    [question |-> get_question(Get(active, channel_id)), active |-> active]

\* QuestionCog._resolve_question_for_channel: the question it returns and the
\* index it leaves behind.
ResolveWith(active, channel_id) ==
    LET tracked == get_question(Get(active, channel_id))
        latest == get_latest_question_for_channel(channel_id)
    IN IF tracked # NoId
       THEN [question |-> tracked, active |-> active]
       ELSE IF latest # NoId
            THEN [question |-> latest, active |-> Put(active, channel_id, latest)]
            ELSE [question |-> NoId, active |-> active]

\* _resolve_question_for_channel on self.active_questions
ResolveQuestion(channel_id) == ResolveWith(active_questions, channel_id)

\* The AnswerResult of a _submit_answer call, with the tables and the index
\* the call leaves behind.
AnswerResult(status, question, solver_id, newUsers, newResponses, active) ==
    [status |-> status, question |-> question, solver_id |-> solver_id,
     users |-> newUsers, responses |-> newResponses, active |-> active]

\* ---------------------------------------------------------------- answers

\* QuestionCog._submit_answer, lines 232-285: the question is resolved and
\* `active` is the index as the resolution left it.
Adjudicate(user, username, choice, channel_id, question, active) ==
    LET first_correct == get_first_correct_response(question)
        is_correct == choice = questions[question].correct_answer
        rec == record_response(question, user, username, choice, is_correct)
    IN IF first_correct # NoId
       THEN AnswerResult("already_solved", question,
                         responses[first_correct].user_id,
                         users, responses, Pop(active, channel_id))
       ELSE IF has_user_answered(question, user)
       THEN AnswerResult("already_answered", question, NoId,
                         users, responses, active)
       ELSE IF rec.raised
       THEN AnswerResult("raised", question, NoId, users, responses, active)
       ELSE IF is_correct
       THEN AnswerResult("correct", question, user,
                         rec.users, rec.responses, Pop(active, channel_id))
       ELSE AnswerResult("incorrect", question, NoId,
                         rec.users, rec.responses, active)

\* QuestionCog._submit_answer, lines 218-230, then the adjudication.
submit_answer(user, username, choice, channel_id, question_id) ==
    IF question_id # NoId
    THEN IF get_question(question_id) = NoId
         THEN AnswerResult("no_question", NoId, NoId, users, responses,
                           active_questions)
         ELSE Adjudicate(user, username, choice,
                         questions[question_id].channel_id, question_id,
                         active_questions)
    ELSE LET res == ResolveQuestion(channel_id)
         IN IF res.question = NoId
            THEN AnswerResult("no_question", NoId, NoId, users, responses,
                              res.active)
            ELSE Adjudicate(user, username, choice, channel_id, res.question,
                            res.active)

\* The store and the index after a _submit_answer call that returned `res`.
\* `credited` keeps, for the properties, who was told "correct" for what.
Recorded(user, res) ==
    /\ Len(res.responses) <= MaxResponses
    /\ users' = res.users
    /\ responses' = res.responses
    /\ active_questions' = res.active
    /\ credited' = IF res.status = "correct"
                   THEN credited \cup {<<res.question, user>>}
                   ELSE credited

\* A _submit_answer call that returned `res`, in a handler that does nothing
\* more to the state followed.
Submitted(user, res) ==
    /\ Recorded(user, res)
    /\ UNCHANGED <<now, questions, publish_lock, task, views, callVars>>

\* AnswerButtons._handle_answer: a click on a button of question_id's message.
ButtonAnswer(user, username, letter, question_id) ==
    /\ question_id \in views
    /\ Submitted(user, submit_answer(user, username, letter,
                                     questions[question_id].channel_id,
                                     question_id))

\* The clock advances.
Tick ==
    /\ now < MaxTime
    /\ now' = now + 1
    /\ UNCHANGED <<dbVars, active_questions, publish_lock, task, views>>
    /\ UNCHANGED <<credited, callVars>>

IdleTask == [pc |-> "idle", channel |-> NoId, qid |-> NoId]

InitBot ==
    /\ now = 0
    /\ questions = <<>>
    /\ responses = <<>>
    /\ users = <<>>
    /\ active_questions = <<>>
    /\ publish_lock = FALSE
    /\ task = [t \in Tasks |-> IdleTask]
    /\ views = {}
    /\ credited = {}

\* No generate_question call is followed.
GenIdle == [pc |-> "idle"]

NormIdle == [pc |-> "idle"]
DispatchIdle == [pc |-> "idle"]

\* No guild has a row, and no dispatch runs.
InitGuilds == guild_config = <<>> /\ dispatch = DispatchIdle

QUESTION_COOLDOWN_SECONDS == 7

\* time.time() when the bot starts: more than a cooldown after the epoch.
StartClock == QUESTION_COOLDOWN_SECONDS

HandlerIdle == [pc |-> "idle", channel |-> NoId, question |-> NoId]
\* `asked` is the time.time() at which a request that went on to publish
\* arrived.
NoRequest == [status |-> "none", asked |-> NoId]

\* The registries of __init__, no handler on its way, no request made.
InitChannels ==
    /\ active_views = <<>>
    /\ last_question_time = <<>>
    /\ clock = StartClock
    /\ handler = HandlerIdle
    /\ request = [t \in Tasks |-> NoRequest]
    /\ published = <<>>

Init == InitBot /\ gen = GenIdle /\ norm = NormIdle /\ InitGuilds /\ InitChannels

\* ------------------------------------------------------- question source
\* Python strings are sequences of one-character strings.
LowerAlpha == <<"a", "b", "c", "d", "e", "f", "g", "h", "i", "j", "k", "l", "m",
                "n", "o", "p", "q", "r", "s", "t", "u", "v", "w", "x", "y", "z">>
UpperAlpha == <<"A", "B", "C", "D", "E", "F", "G", "H", "I", "J", "K", "L", "M",
                "N", "O", "P", "Q", "R", "S", "T", "U", "V", "W", "X", "Y", "Z">>
Whitespace == {" ", "\t", "\n"}

upper_char(c) ==
    IF \E i \in DOMAIN LowerAlpha : LowerAlpha[i] = c
    THEN UpperAlpha[CHOOSE i \in DOMAIN LowerAlpha : LowerAlpha[i] = c]
    ELSE c

\* str.upper
upper(str) == [i \in 1..Len(str) |-> upper_char(str[i])]

\* str.strip
strip(str) ==
    LET kept == {i \in 1..Len(str) : str[i] \notin Whitespace}
    IN IF kept = {} THEN <<>>
       ELSE SubSeq(str, CHOOSE i \in kept : \A j \in kept : i <= j,
                        CHOOSE i \in kept : \A j \in kept : j <= i)

\* The tuple ("A", "B", "C", "D") of line 359.
AnswerLetters == {<<"A">>, <<"B">>, <<"C">>, <<"D">>}

\* A JSON value as far as generate_question looks into it: its type, the keys
\* of an object, the length of an array, the characters of a string, the
\* value of a number. "absent" is a key the object does not have.
Json(type, keys, len, str) == [type |-> type, keys |-> keys, len |-> len, str |-> str]
JsonAbsent == Json("absent", {}, 0, <<>>)
JsonNull == Json("null", {}, 0, <<>>)
JsonObject(keys) == Json("object", keys, 0, <<>>)
JsonArray(len) == Json("array", {}, len, <<>>)
JsonString(str) == Json("string", {}, 0, str)
JsonNumber(n) == Json("number", {}, n, <<>>)

\* bool(value)
Truthy(v) ==
    CASE v.type = "object" -> v.keys # {}
      [] v.type = "array" -> v.len > 0
      [] v.type = "string" -> Len(v.str) > 0
      [] v.type = "number" -> v.len # 0
      [] OTHER -> FALSE

\* len(value); numbers and None have none (TypeError).
HasLen(v) == v.type \in {"object", "array", "string"}
LenOf(v) ==
    CASE v.type = "object" -> Cardinality(v.keys)
      [] v.type = "array" -> v.len
      [] OTHER -> Len(v.str)

\* The option objects, answers and replies the modelled backends give.
Keys(chars) == {<<c>> : c \in chars}
BackendOptions ==
    {JsonAbsent, JsonNull, JsonArray(4), JsonNumber(4),
     JsonObject(Keys({"A", "B", "C", "D"})), JsonObject(Keys({"a", "b", "c", "d"})),
     JsonObject(Keys({"A", "B", "C"})), JsonObject(Keys({"a", "A", "b", "c"})),
     JsonObject(Keys({"1", "2", "3", "4"})), JsonObject({})}
BackendAnswers ==
    {JsonAbsent, JsonNull, JsonNumber(1), JsonString(<<"B">>),
     JsonString(<<" ", "c", "\n">>), JsonString(<<"E">>), JsonString(<<"A", "B">>)}

\* What client.chat.completions.create does: it raises ("api_error"), returns
\* no choice ("no_choices"), content None ("none"), text that is not JSON
\* ("text"), or JSON: a non-object (`value`) or an object with the two keys
\* the validation reads.
Reply(kind, value, options, answer) ==
    [kind |-> kind, value |-> value, options |-> options, answer |-> answer]
BackendReplies ==
    {Reply(k, JsonAbsent, JsonAbsent, JsonAbsent) :
        k \in {"api_error", "no_choices", "none", "text"}}
    \cup {Reply("json", v, JsonAbsent, JsonAbsent) :
            v \in {JsonArray(0), JsonString(<<"B">>), JsonNull}}
    \cup {Reply("json", JsonObject({}), o, a) :
            o \in BackendOptions, a \in BackendAnswers}

\* QuestionPayload: the keys of its options, its answer, its model_name.
QuestionPayload(options, answer, model_name) ==
    [options |-> options, answer |-> answer, model_name |-> model_name]
NoPayload == QuestionPayload({}, <<>>, "")

\* The topics with a curated entry in _fallback_question, and their answers.
CuratedAnswer ==
    [topic \in {"Operating Systems", "Algorithms & Data Structures",
                "Databases & SQL", "Computer Networking", "Machine Learning"} |->
        IF topic = "Operating Systems" THEN <<"C">> ELSE <<"B">>]

\* A _fallback_question without the lookup of the curated entries.
fallback_question_generic(topic) == QuestionPayload(AnswerLetters, <<"C">>, "fallback")

\* GroqClient._fallback_question
fallback_question(topic) ==
    IF topic \in DOMAIN CuratedAnswer
    THEN QuestionPayload(AnswerLetters, CuratedAnswer[topic], "fallback")
    ELSE QuestionPayload(AnswerLetters, <<"C">>, "fallback")

\* One pass of the loop body of generate_question, lines 315-378, on the reply
\* of the backend: "failed" (the `continue`s), "raised" (an exception no
\* `except` of the function catches) or "payload".
Attempted(kind, exc, payload) == [kind |-> kind, exc |-> exc, payload |-> payload]
Validate(reply, model_choice) ==
    LET parsed == reply.value
        options == IF reply.options.type = "absent" THEN JsonObject({})
                   ELSE reply.options
        raw == IF reply.answer.type = "absent" THEN JsonString(<<>>)
               ELSE reply.answer
        answer == upper(strip(raw.str))
    IN IF reply.kind \in {"api_error", "no_choices", "none", "text"}
       THEN Attempted("failed", "", NoPayload)
       ELSE IF parsed.type # "object"
       THEN Attempted("raised", "AttributeError", NoPayload)
       ELSE IF ~Truthy(options)
       THEN IF HasLen(options) THEN Attempted("failed", "", NoPayload)
            ELSE Attempted("raised", "TypeError", NoPayload)
       ELSE IF ~HasLen(options)
       THEN Attempted("raised", "TypeError", NoPayload)
       ELSE IF LenOf(options) # 4
       THEN Attempted("failed", "", NoPayload)
       ELSE IF raw.type # "string"
       THEN Attempted("raised", "AttributeError", NoPayload)
       ELSE IF answer \notin AnswerLetters
       THEN Attempted("failed", "", NoPayload)
       ELSE IF options.type # "object"
       THEN Attempted("raised", "AttributeError", NoPayload)
       ELSE Attempted("payload", "",
                QuestionPayload({upper(opt) : opt \in options.keys}, answer,
                                model_choice))

\* The models of the configuration, and the topics asked for.
Models == {"m1", "m2", "m3"}
Topics == {"Operating Systems", "Databases & SQL", "Compilers"}
\* settings.get("max_retries", 3)
DefaultMaxRetries == 3

\* The sequences that list each element of `set` once.
Orders(set) ==
    {order \in [1..Cardinality(set) -> set] :
        \A i, j \in DOMAIN order : i # j => order[i] # order[j]}

\* random.shuffle: the lists that hold the entries of `list` in some order.
Shuffles(list) ==
    {[i \in DOMAIN list |-> list[order[i]]] : order \in Orders(DOMAIN list)}

\* list[:n]
Take(list, n) == SubSeq(list, 1, IF n < Len(list) THEN n ELSE Len(list))

\* A generate_question call at its first line. clients_ready: self._clients
\* is not empty; with_client: the models _get_client_for_model finds a client
\* for (none when self._clients is empty); available: self.available_models,
\* the model lists of the enabled providers one after the other, which
\* _get_available_models does not de-duplicate.
GenCall(clients_ready, with_client, available, max_retries, topic) ==
    [pc |-> "start", clients_ready |-> clients_ready, with_client |-> with_client,
     available |-> available, max_retries |-> max_retries, topic |-> topic,
     models_to_try |-> <<>>, attempt |-> 1, calls |-> <<>>, exc |-> "",
     out |-> NoPayload]

GenCalls ==
    {call \in {GenCall(ready, with, available, retries, topic) :
                ready \in BOOLEAN, with \in SUBSET Models,
                available \in UNION {[1..n -> Models] : n \in 1..MaxListed},
                retries \in 1..DefaultMaxRetries, topic \in Topics} :
        call.clients_ready \/ call.with_client = {}}

\* generate_question returns the fallback (lines 265-267 and 383-385).
ReturnFallback ==
    gen' = [gen EXCEPT !.pc = "returned", !.out = fallback_question(gen.topic)]

\* generate_question, lines 263-273: no client at all, or the shuffle.
GenBegin ==
    /\ gen.pc = "start"
    /\ \/ /\ ~gen.clients_ready
          /\ ReturnFallback
       \/ /\ gen.clients_ready
          /\ \E shuffled \in Shuffles(gen.available) :
                gen' = [gen EXCEPT !.pc = "loop",
                                   !.models_to_try = Take(shuffled, gen.max_retries)]
    /\ UNCHANGED <<botVars, norm, guildVars, channelVars>>

\* generate_question, lines 303-378: one pass of the loop.
GenAttempt ==
    /\ gen.pc = "loop"
    /\ gen.attempt <= Len(gen.models_to_try)
    /\ LET model_choice == gen.models_to_try[gen.attempt]
       IN \/ /\ model_choice \notin gen.with_client
             /\ gen' = [gen EXCEPT !.attempt = @ + 1]
          \/ /\ model_choice \in gen.with_client
             /\ \E reply \in BackendReplies :
                 LET done == Validate(reply, model_choice)
                     called == Append(gen.calls, model_choice)
                 IN gen' = CASE done.kind = "failed" ->
                                    [gen EXCEPT !.attempt = @ + 1, !.calls = called]
                             [] done.kind = "raised" ->
                                    [gen EXCEPT !.pc = "raised", !.exc = done.exc,
                                                !.calls = called]
                             [] OTHER ->
                                    [gen EXCEPT !.pc = "returned", !.calls = called,
                                                !.out = done.payload]
    /\ UNCHANGED <<botVars, norm, guildVars, channelVars>>

\* generate_question, lines 380-385: every model of the list has failed.
GenExhausted ==
    /\ gen.pc = "loop"
    /\ gen.attempt > Len(gen.models_to_try)
    /\ ReturnFallback
    /\ UNCHANGED <<botVars, norm, guildVars, channelVars>>

InitGen ==
    InitBot /\ gen \in GenCalls /\ norm = NormIdle /\ InitGuilds /\ InitChannels

NextGen == GenBegin \/ GenAttempt \/ GenExhausted

\* generate_question calls, each followed from a configuration of the client.
SpecGen == InitGen /\ [][NextGen]_vars

\* ------------------------------------------------------ normalise_answer
\* str.startswith
startswith(str, prefix) ==
    Len(str) >= Len(prefix) /\ SubSeq(str, 1, Len(prefix)) = prefix

\* str.replace(old, ""): every occurrence of `old`, left to right.
RECURSIVE remove_all(_, _)
remove_all(str, old) ==
    IF Len(str) < Len(old) THEN str
    ELSE IF startswith(str, old)
    THEN remove_all(SubSeq(str, Len(old) + 1, Len(str)), old)
    ELSE <<Head(str)>> \o remove_all(Tail(str), old)

OptionPrefix == <<"O", "P", "T", "I", "O", "N", " ">>
ChoicePrefix == <<"C", "H", "O", "I", "C", "E", " ">>
Separators == {")", ".", " ", "-"}
Digits == <<"1", "2", "3", "4">>
LetterOf == <<"A", "B", "C", "D">>

\* normalise_answer, lines 33-40: the prefixes, then the digits.
after_letter_rules(token) ==
    LET no_option == IF startswith(token, OptionPrefix)
                     THEN remove_all(token, OptionPrefix) ELSE token
        no_choice == IF startswith(no_option, ChoicePrefix)
                     THEN remove_all(no_option, ChoicePrefix) ELSE no_option
    IN IF \E d \in DOMAIN Digits : no_choice = <<Digits[d]>>
       THEN <<LetterOf[CHOOSE d \in DOMAIN Digits : no_choice = <<Digits[d]>>]>>
       ELSE no_choice

\* A normalise_answer without the rule of lines 30-32 (a letter followed by
\* a separator).
normalise_answer_no_separator(answer) ==
    LET token == upper(strip(answer))
    IN IF token \in AnswerLetters THEN token ELSE after_letter_rules(token)

\* utils.normalise_answer
normalise_answer(answer) ==
    LET token == upper(strip(answer))
    IN IF token \in AnswerLetters THEN token
       ELSE IF /\ Len(token) > 1
               /\ <<token[1]>> \in AnswerLetters
               /\ token[2] \in Separators
       THEN <<token[1]>>
       ELSE after_letter_rules(token)

\* The answers typed: spaces, a prefix, a body and a suffix, in that order.
Pads == {<<>>, <<" ">>, <<" ", "\n">>}
TypedPrefixes ==
    {<<>>, <<"O", "p", "t", "i", "o", "n", " ">>, <<"o", "p", "t", "i", "o", "n", " ">>,
     OptionPrefix, <<"c", "h", "o", "i", "c", "e", " ">>, ChoicePrefix}
TypedLetters == {"a", "b", "c", "d", "A", "B", "C", "D"}
Banana == <<"b", "a", "n", "a", "n", "a">>
TypedBodies ==
    {<<c>> : c \in TypedLetters} \cup {<<Digits[d]>> : d \in DOMAIN Digits}
    \cup {Banana, <<"e">>, <<"5">>, <<>>}
TypedSuffixes == {<<>>, <<")">>}

NormCall(left, prefix, body, suffix, right) ==
    [pc |-> "start", prefix |-> prefix, body |-> body, suffix |-> suffix,
     answer |-> left \o prefix \o body \o suffix \o right, out |-> <<>>]
NormCalls ==
    {NormCall(left, prefix, body, suffix, right) :
        left \in Pads, prefix \in TypedPrefixes, body \in TypedBodies,
        suffix \in TypedSuffixes, right \in Pads}

\* The call runs.
NormaliseAnswer ==
    /\ norm.pc = "start"
    /\ norm' = [norm EXCEPT !.pc = "returned", !.out = normalise_answer(norm.answer)]
    /\ UNCHANGED <<botVars, gen, guildVars, channelVars>>

InitNorm ==
    InitBot /\ gen = GenIdle /\ norm \in NormCalls /\ InitGuilds /\ InitChannels

NextNorm == NormaliseAnswer

\* normalise_answer calls, one for each answer typed.
SpecNorm == InitNorm /\ [][NextNorm]_vars

\* ------------------------------------------------------------ on_message
\* The messages typed in a channel while the bot runs.
MessageContents == {<<"a">>, <<"b", ")">>, Banana}

\* QuestionCog.on_message, lines 796-803: what the message leads to. A
\* message that does not normalise to a letter is left alone ("ignored").
MessageResult(user, username, content, channel_id) ==
    LET canonical_choice == normalise_answer(content)
    IN IF canonical_choice \notin AnswerLetters
       THEN AnswerResult("ignored", NoId, NoId, users, responses, active_questions)
       ELSE submit_answer(user, username, canonical_choice[1], channel_id, NoId)

\* QuestionCog.on_message: a plain-text answer in a channel.
MessageAnswer(user, username, content, channel_id) ==
    Submitted(user, MessageResult(user, username, content, channel_id))

\* ------------------------------------------------------------ publishing
\* The outcomes of GroqClient.generate_question as publish sees them: a payload
\* with its correct letter, or an exception that leaves the call.
GenerateOutcomes ==
    {[raised |-> TRUE, answer |-> ""]}
        \cup {[raised |-> FALSE, answer |-> a] : a \in PayloadAnswers}

\* Invocations that will still store a question.
Pending == {t \in Tasks : task[t].pc = "waiting"}

\* A publish_question that does not wait for the lock.
CanAcquireUnlocked == TRUE

\* asyncio.Lock.acquire returns only when the lock is not held.
CanAcquire == ~publish_lock

\* A caller (the scheduled dispatch, /question, a New/Next Question button)
\* reaches `async with self.publish_lock` in publish_question.
PublishCall(t, channel) ==
    /\ task[t].pc = "idle"
    /\ Len(questions) + Cardinality(Pending) < MaxQuestions
    /\ task' = [task EXCEPT ![t] = [pc |-> "waiting", channel |-> channel,
                                    qid |-> NoId]]
    /\ UNCHANGED <<now, dbVars, active_questions, publish_lock, views>>
    /\ UNCHANGED <<credited, callVars>>

\* publish_question, lines 360-392: the lock is taken, the question is
\* generated and stored, and the send of the announcing message starts.
PublishEnter(t) ==
    /\ task[t].pc = "waiting"
    /\ CanAcquire
    /\ \E payload \in GenerateOutcomes :
        \/ /\ payload.raised
           /\ task' = [task EXCEPT ![t] = IdleTask]
           /\ UNCHANGED <<questions, publish_lock>>
        \/ /\ ~payload.raised
           /\ questions' = record_question(payload.answer, task[t].channel)
           /\ publish_lock' = TRUE
           /\ task' = [task EXCEPT ![t].pc = "sending",
                                   ![t].qid = Len(questions) + 1]
    /\ UNCHANGED <<now, responses, users, active_questions, views>>
    /\ UNCHANGED <<credited, callVars>>

\* The announcing message, with its answer buttons, appears in the channel
\* while publish_question is still suspended in channel.send.
PublishDelivered(t) ==
    /\ task[t].pc = "sending"
    /\ task' = [task EXCEPT ![t].pc = "delivered"]
    /\ views' = views \cup {task[t].qid}
    /\ UNCHANGED <<now, dbVars, active_questions, publish_lock>>
    /\ UNCHANGED <<credited, callVars>>

\* publish_question, lines 394-402: channel.send has returned.
PublishFinish(t) ==
    /\ task[t].pc = "delivered"
    /\ active_questions' = Put(active_questions, task[t].channel, task[t].qid)
    /\ questions' = attach_message_id(task[t].qid, task[t].qid)
    /\ publish_lock' = FALSE
    /\ task' = [task EXCEPT ![t] = IdleTask]
    /\ UNCHANGED <<now, responses, users, views>>
    /\ UNCHANGED <<credited, callVars>>

\* A failed send that leaves publish_question without releasing the lock.
PublishSendFailsKeepsLock(t) ==
    /\ task[t].pc = "sending"
    /\ task' = [task EXCEPT ![t] = IdleTask]
    /\ UNCHANGED <<now, dbVars, active_questions, publish_lock, views>>
    /\ UNCHANGED <<credited, callVars>>

\* channel.send raises: the exception leaves publish_question through the
\* `async with`, which releases the lock.
PublishSendFails(t) ==
    /\ task[t].pc = "sending"
    /\ publish_lock' = FALSE
    /\ task' = [task EXCEPT ![t] = IdleTask]
    /\ UNCHANGED <<now, dbVars, active_questions, views>>
    /\ UNCHANGED <<credited, callVars>>

\* --------------------------------------------------------------- restart
\* A hydration that passes over a question without a message id.
HydrateAttachedOnly(known) ==
    LET keep == {c \in known :
                    LET question == get_latest_question_for_channel(c)
                    IN /\ question # NoId
                       /\ questions[question].message_id # NoId
                       /\ Days(now - questions[question].created_at) < 1
                       /\ get_first_correct_response(question) = NoId}
    IN [c \in keep |-> get_latest_question_for_channel(c)]

\* A hydration that does not look at the age of the question.
HydrateAnyAge(known) ==
    LET keep == {c \in known :
                    LET question == get_latest_question_for_channel(c)
                    IN /\ question # NoId
                       /\ get_first_correct_response(question) = NoId}
    IN [c \in keep |-> get_latest_question_for_channel(c)]

\* QuestionCog._hydrate_active_questions over the channels of bot.guilds.
Hydrate(known) ==
    LET keep == {c \in known :
                    LET question == get_latest_question_for_channel(c)
                    IN /\ question # NoId
                       /\ Days(now - questions[question].created_at) < 1
                       /\ get_first_correct_response(question) = NoId}
    IN [c \in keep |-> get_latest_question_for_channel(c)]

\* The process stops and starts again: QuestionCog.__init__, then cog_load.
\* `known` are the text channels of the guilds the bot holds at that moment.
Restart(known) ==
    /\ active_questions' = Hydrate(known)
    /\ publish_lock' = FALSE
    /\ task' = [t \in Tasks |-> IdleTask]
    /\ views' = {}
    /\ UNCHANGED <<credited, callVars>>
    /\ UNCHANGED <<now, dbVars>>

\* QuestionCog.show_question, lines 852-861: the id it goes on to display.
ShowQuestion(channel_id) ==
    /\ LET latest == get_latest_question_for_channel(channel_id)
       IN IF Get(active_questions, channel_id) = NoId /\ latest # NoId
          THEN active_questions' = Put(active_questions, channel_id, latest)
          ELSE UNCHANGED active_questions
    /\ UNCHANGED <<now, dbVars, publish_lock, task, views>>
    /\ UNCHANGED <<credited, callVars>>

\* ----------------------------------------------------------- leaderboard
\* ORDER BY score DESC, correct DESC: row a may not come after row b.
Outranks(a, b) ==
    \/ users[a].score > users[b].score
    \/ users[a].score = users[b].score /\ users[a].correct > users[b].correct

\* The orders in which the query may deliver the rows of table users; rows
\* equal in score and correct come in any order.
RankedUsers ==
    {order \in Orders(DOMAIN users) :
        \A i, j \in DOMAIN order : i < j => ~Outranks(order[j], order[i])}

\* The limits get_leaderboard is called with.
Limits == 1..(NumUsers + 1)

\* A get_leaderboard without the LIMIT.
get_leaderboard_unlimited(limit) == RankedUsers

\* db.get_leaderboard: the lists of user ids it may return.
get_leaderboard(limit) == {Take(order, limit) : order \in RankedUsers}

\* ----------------------------------------------------------------- admin
\* A reset that empties table users.
ResetScoresDeletes ==
    /\ users' = <<>>
    /\ UNCHANGED <<now, questions, responses, active_questions, publish_lock,
                   task, views>>
    /\ UNCHANGED <<credited, callVars>>

\* AdminCog.reset_scores
ResetScores ==
    /\ users' = [u \in DOMAIN users |->
                    [users[u] EXCEPT !.score = 0, !.correct = 0, !.wrong = 0]]
    /\ UNCHANGED <<now, questions, responses, active_questions, publish_lock,
                   task, views>>
    /\ UNCHANGED <<credited, callVars>>

\* ---------------------------------------------------------- guild config
\* GuildConfig(guild_id=...): both columns NULL.
DefaultConfig == [daily_channel_id |-> NoId, admin_role_id |-> NoId]

\* db.get_guild_config: the row it returns and the table it leaves behind
\* (a guild without a row gets the default one).
get_guild_config(guild_id) ==
    IF guild_id \in DOMAIN guild_config
    THEN [config |-> guild_config[guild_id], table |-> guild_config]
    ELSE [config |-> DefaultConfig,
          table |-> Put(guild_config, guild_id, DefaultConfig)]

\* An update_guild_config that builds the row anew from its arguments.
update_guild_config_anew(guild_id, kwargs) ==
    Put(guild_config, guild_id,
        [key \in DOMAIN DefaultConfig |->
            IF key \in DOMAIN kwargs THEN kwargs[key] ELSE DefaultConfig[key]])

\* db.update_guild_config: the table it leaves behind. kwargs maps the
\* keyword arguments of the call to their values.
update_guild_config(guild_id, kwargs) ==
    LET config == IF guild_id \in DOMAIN guild_config
                  THEN guild_config[guild_id] ELSE DefaultConfig
    IN Put(guild_config, guild_id,
           [key \in DOMAIN config |->
                IF key \in DOMAIN kwargs THEN kwargs[key] ELSE config[key]])

\* AdminCog.set_daily_channel, for a text channel of the guild.
SetDailyChannel(guild_id, channel_id) ==
    /\ dispatch.pc # "idle"
    /\ dispatch.owner[channel_id] = guild_id
    /\ guild_config' = update_guild_config(guild_id,
                            [key \in {"daily_channel_id"} |-> channel_id])
    /\ UNCHANGED <<botVars, gen, norm, dispatch, channelVars>>

\* AdminCog.set_admin_role
SetAdminRole(guild_id, role_id) ==
    /\ guild_config' = update_guild_config(guild_id,
                            [key \in {"admin_role_id"} |-> role_id])
    /\ UNCHANGED <<botVars, gen, norm, dispatch, channelVars>>

\* The is_admin check of an admin command: it reads the row of the guild.
CheckAdmin(guild_id) ==
    /\ guild_config' = get_guild_config(guild_id).table
    /\ UNCHANGED <<botVars, gen, norm, dispatch, channelVars>>

\* -------------------------------------------------------------- dispatch
\* The publish invocation the scheduled dispatch awaits.
DispatchTask == 1

\* A dispatch run the scheduler is about to start. owner: the guild each
\* text channel belongs to (NoId: a channel of no guild the bot is in).
DispatchRun(owner) ==
    [pc |-> "scheduled", owner |-> owner, guild |-> 1, skipped |-> {},
     published |-> <<>>, before |-> 0]
DispatchRuns == {DispatchRun(owner) : owner \in [Channels -> Guilds \cup {NoId}]}

\* guild.get_channel
get_channel(guild_id, channel_id) ==
    IF channel_id \in Channels /\ dispatch.owner[channel_id] = guild_id
    THEN channel_id ELSE NoId

\* QuestionCog._auto_select_channel: the first text channel of the guild.
auto_select_channel(guild_id) ==
    LET mine == {c \in Channels : dispatch.owner[c] = guild_id}
    IN IF mine = {} THEN NoId ELSE CHOOSE c \in mine : \A o \in mine : c <= o

\* _dispatch_daily_questions, lines 102-107: the channel found for the guild.
FoundChannel(guild_id) ==
    LET config == get_guild_config(guild_id).config
        configured == IF config.daily_channel_id # NoId
                      THEN get_channel(guild_id, config.daily_channel_id)
                      ELSE NoId
    IN IF configured # NoId THEN configured ELSE auto_select_channel(guild_id)

\* The scheduler fires: the loop over self.bot.guilds starts.
DispatchStart ==
    /\ dispatch.pc = "scheduled"
    /\ dispatch' = [dispatch EXCEPT !.pc = "loop"]
    /\ UNCHANGED <<botVars, gen, norm, guild_config, channelVars>>

\* Lines 101-110: no channel is found for the guild, which is passed over.
DispatchSkip ==
    /\ dispatch.pc = "loop"
    /\ dispatch.guild \in Guilds
    /\ FoundChannel(dispatch.guild) = NoId
    /\ guild_config' = get_guild_config(dispatch.guild).table
    /\ dispatch' = [dispatch EXCEPT !.guild = @ + 1,
                                    !.skipped = @ \cup {dispatch.guild}]
    /\ UNCHANGED <<botVars, gen, norm, channelVars>>

\* Lines 101-111: a channel is found and publish_question is awaited; the
\* call reaches `async with self.publish_lock`.
DispatchPublish ==
    /\ dispatch.pc = "loop"
    /\ dispatch.guild \in Guilds
    /\ FoundChannel(dispatch.guild) # NoId
    /\ task[DispatchTask].pc = "idle"
    /\ Len(questions) < MaxQuestions
    /\ guild_config' = get_guild_config(dispatch.guild).table
    /\ task' = [task EXCEPT ![DispatchTask] =
                    [pc |-> "waiting", channel |-> FoundChannel(dispatch.guild),
                     qid |-> NoId]]
    /\ dispatch' = [dispatch EXCEPT !.pc = "publishing",
                                    !.published = Append(@, dispatch.guild),
                                    !.before = Len(questions)]
    /\ UNCHANGED <<now, dbVars, active_questions, publish_lock, views, credited,
                   gen, norm, channelVars>>

\* The awaited publish_question has returned: it stored a question and
\* attached the id of its message.
PublishReturned ==
    /\ Len(questions) > dispatch.before
    /\ questions[Len(questions)].message_id # NoId

\* Line 111 returns: on to the next guild.
DispatchResume ==
    /\ dispatch.pc = "publishing"
    /\ task[DispatchTask].pc = "idle"
    /\ PublishReturned
    /\ dispatch' = [dispatch EXCEPT !.pc = "loop", !.guild = @ + 1]
    /\ UNCHANGED <<botVars, gen, norm, guild_config, channelVars>>

\* Line 111 raises (generate_question or channel.send raised inside
\* publish_question): nothing in _dispatch_daily_questions catches it, and
\* the run ends there.
DispatchRaised ==
    /\ dispatch.pc = "publishing"
    /\ task[DispatchTask].pc = "idle"
    /\ ~PublishReturned
    /\ dispatch' = [dispatch EXCEPT !.pc = "raised"]
    /\ UNCHANGED <<botVars, gen, norm, guild_config, channelVars>>

\* The loop has gone through every guild.
DispatchDone ==
    /\ dispatch.pc = "loop"
    /\ dispatch.guild \notin Guilds
    /\ dispatch' = [dispatch EXCEPT !.pc = "done"]
    /\ UNCHANGED <<botVars, gen, norm, guild_config, channelVars>>

InitGuild ==
    InitBot /\ gen = GenIdle /\ norm = NormIdle /\ guild_config = <<>>
        /\ dispatch \in DispatchRuns /\ InitChannels

NextGuild ==
    \/ \E g \in Guilds, c \in Channels : SetDailyChannel(g, c)
    \/ \E g \in Guilds, r \in Roles : SetAdminRole(g, r)
    \/ \E g \in Guilds : CheckAdmin(g)
    \/ DispatchStart
    \/ DispatchSkip
    \/ DispatchPublish
    \/ DispatchResume
    \/ DispatchRaised
    \/ DispatchDone
    \/ \E t \in Tasks : PublishEnter(t)
    \/ \E t \in Tasks : PublishDelivered(t)
    \/ \E t \in Tasks : PublishFinish(t)
    \/ \E t \in Tasks : PublishSendFails(t)

\* One scheduled dispatch run, with the admin commands that configure guilds.
SpecGuild == InitGuild /\ [][NextGuild]_vars

\* ------------------------------------------------------ views, cooldown
\* publish_question, lines 394-402, with the registries of views and of
\* publish times: channel.send has returned.
PublishRegisters(t) ==
    /\ task[t].pc = "delivered"
    /\ active_questions' = Put(active_questions, task[t].channel, task[t].qid)
    /\ last_question_time' = Put(last_question_time, task[t].channel, clock)
    /\ active_views' = Put(active_views, task[t].channel, task[t].qid)
    /\ questions' = attach_message_id(task[t].qid, task[t].qid)
    /\ publish_lock' = FALSE
    /\ task' = [task EXCEPT ![t] = IdleTask]
    /\ published' = Append(published, [question |-> task[t].qid,
                                       channel |-> task[t].channel,
                                       request |-> request[t]])
    /\ UNCHANGED <<now, responses, users, views, credited>>
    /\ UNCHANGED <<gen, norm, guildVars, clock, handler, request>>

\* QuestionCog.on_message, lines 788-812: the answer is adjudicated; after
\* "correct" or "already_solved" the handler awaits the reaction (and the
\* notice) before it comes to _disable_active_view.
MessageAdjudicated(user, username, content, channel_id) ==
    LET res == MessageResult(user, username, content, channel_id)
    IN /\ handler.pc = "idle"
       /\ Recorded(user, res)
       /\ handler' = IF res.status \in {"correct", "already_solved"}
                     THEN [pc |-> "reacting", channel |-> channel_id,
                           question |-> res.question]
                     ELSE handler
       /\ UNCHANGED <<now, questions, publish_lock, task, views>>
       /\ UNCHANGED <<gen, norm, guildVars, active_views, last_question_time,
                      clock, request, published>>

\* QuestionCog._disable_active_view, called from on_message (lines 809,
\* 817): the channel's view is unregistered and its buttons disabled; the
\* edit of the message may fail, and the buttons then stay as they are.
MessageCleanup ==
    /\ handler.pc = "reacting"
    /\ active_views' = Pop(active_views, handler.channel)
    /\ \E edited \in BOOLEAN :
        views' = IF edited THEN views \ {Get(active_views, handler.channel)}
                 ELSE views
    /\ handler' = HandlerIdle
    /\ UNCHANGED <<now, dbVars, active_questions, publish_lock, task, credited>>
    /\ UNCHANGED <<gen, norm, guildVars, last_question_time, clock, request,
                   published>>

\* Publishes and plain-text answers in the channels, with the views.
NextViews ==
    \/ \E t \in Tasks, c \in Channels : PublishCall(t, c)
    \/ \E t \in Tasks : PublishEnter(t)
    \/ \E t \in Tasks : PublishDelivered(t)
    \/ \E t \in Tasks : PublishRegisters(t)
    \/ \E t \in Tasks : PublishSendFails(t)
    \/ \E u \in Users, n \in Names, content \in MessageContents, c \in Channels :
            MessageAdjudicated(u, n, content, c)
    \/ MessageCleanup

SpecViews == Init /\ [][NextViews]_vars

\* time.time() advances by a second.
ClockTick ==
    /\ clock < StartClock + MaxSeconds
    /\ clock' = clock + 1
    /\ UNCHANGED <<botVars, gen, norm, guildVars, active_views,
                   last_question_time, handler, request, published>>

\* The cooldown check of _handle_question_request (lines 541-546) and of
\* NextQuestionButton.next_question (lines 908-913).
InCooldown(channel_id) ==
    clock - Get(last_question_time, channel_id) < QUESTION_COOLDOWN_SECONDS

\* A manual request for a question in a channel (/question, /q or the Next
\* Question button): refused in the cooldown, else on to publish_question.
QuestionRequest(t, channel_id) ==
    /\ task[t].pc = "idle"
    /\ \/ /\ InCooldown(channel_id)
          /\ request' = [request EXCEPT ![t] = [status |-> "refused",
                                                asked |-> NoId]]
          /\ UNCHANGED task
       \/ /\ ~InCooldown(channel_id)
          /\ Len(questions) + Cardinality(Pending) < MaxQuestions
          /\ request' = [request EXCEPT ![t] = [status |-> "accepted",
                                                asked |-> clock]]
          /\ task' = [task EXCEPT ![t] = [pc |-> "waiting",
                                          channel |-> channel_id, qid |-> NoId]]
    /\ UNCHANGED <<now, dbVars, active_questions, publish_lock, views, credited>>
    /\ UNCHANGED <<gen, norm, guildVars, active_views, last_question_time,
                   clock, handler, published>>

\* Manual requests and their publishes, with the clock.
NextCooldown ==
    \/ \E t \in Tasks, c \in Channels : QuestionRequest(t, c)
    \/ \E t \in Tasks : PublishEnter(t)
    \/ \E t \in Tasks : PublishDelivered(t)
    \/ \E t \in Tasks : PublishRegisters(t)
    \/ \E t \in Tasks : PublishSendFails(t)
    \/ ClockTick

SpecCooldown == Init /\ [][NextCooldown]_vars

\* ------------------------------------------------- publishing, scheduled
\* The publish invocations, with the clicks on the buttons they put up.
NextPublish ==
    \/ \E u \in Users, n \in Names, l \in Choices, q \in QuestionIds :
            ButtonAnswer(u, n, l, q)
    \/ \E t \in Tasks, c \in Channels : PublishCall(t, c)
    \/ \E t \in Tasks : PublishEnter(t)
    \/ \E t \in Tasks : PublishDelivered(t)
    \/ \E t \in Tasks : PublishFinish(t)
    \/ \E t \in Tasks : PublishSendFails(t)

\* The event loop runs every task that can run. asyncio.Lock wakes its
\* waiters in the order they came, so an invocation that waits for the lock
\* is not passed over for ever; and each channel.send returns or raises.
PublishFairness ==
    \A t \in Tasks :
        /\ SF_vars(PublishEnter(t))
        /\ WF_vars(PublishDelivered(t) \/ PublishSendFails(t))
        /\ WF_vars(PublishFinish(t))

SpecPublish == Init /\ [][NextPublish]_vars /\ PublishFairness

Next ==
    \/ \E u \in Users, n \in Names, l \in Choices, q \in QuestionIds :
            ButtonAnswer(u, n, l, q)
    \/ \E u \in Users, n \in Names, content \in MessageContents, c \in Channels :
            MessageAnswer(u, n, content, c)
    \/ \E t \in Tasks, c \in Channels : PublishCall(t, c)
    \/ \E t \in Tasks : PublishEnter(t)
    \/ \E t \in Tasks : PublishDelivered(t)
    \/ \E t \in Tasks : PublishFinish(t)
    \/ \E t \in Tasks : PublishSendFails(t)
    \/ \E known \in SUBSET Channels : Restart(known)
    \/ \E c \in Channels : ShowQuestion(c)
    \/ ResetScores
    \/ Tick

Spec == Init /\ [][Next]_vars

\* ============================================================ properties

\* The _submit_answer calls the handlers can make in the current state, as
\* <<user, username, choice, channel_id, question_id>>: a click on a button
\* that is on screen, or a plain-text letter in a channel.
ButtonCalls ==
    {<<u, n, l, questions[q].channel_id, q>> :
        u \in Users, n \in Names, l \in Choices, q \in views}
MessageCalls ==
    {<<u, n, l, c, NoId>> : u \in Users, n \in Names, l \in Choices, c \in Channels}
Calls == ButtonCalls \cup MessageCalls

\* What the call returns and leaves behind.
Outcome(call) == submit_answer(call[1], call[2], call[3], call[4], call[5])

ResponsesOf(question_id) ==
    {r \in ResponseIds : responses[r].question_id = question_id}

Score(u) == IF u \in DOMAIN users THEN users[u].score ELSE 0
Correct(u) == IF u \in DOMAIN users THEN users[u].correct ELSE 0
Wrong(u) == IF u \in DOMAIN users THEN users[u].wrong ELSE 0

\* C1: every question has at most one Response with is_correct = 1;
\* get_first_correct_response returns exactly that row, and no other correct
\* row of the question carries an earlier timestamp.
C1_OneWinner ==
    \A q \in QuestionIds :
        /\ Cardinality(CorrectResponses(q)) <= 1
        /\ \A r \in CorrectResponses(q) :
            /\ get_first_correct_response(q) = r
            /\ \A o \in CorrectResponses(q) :
                responses[r].answered_at <= responses[o].answered_at

\* Two users have answered one question and one of them won it.
C1_Witness ==
    \E q \in QuestionIds :
        /\ Cardinality(ResponsesOf(q)) = 2
        /\ CorrectResponses(q) # {}

\* C2: for every (question, user) pair there is at most one Response row.
C2_OneResponsePerPair ==
    \A q \in QuestionIds, u \in Users :
        Cardinality({r \in ResponsesOf(q) : responses[r].user_id = u}) <= 1

\* A user has answered two questions, and a new call by that user for the
\* one still open is possible.
C2_Witness ==
    \E u \in Users :
        /\ Cardinality({r \in ResponseIds : responses[r].user_id = u}) = 2
        /\ \E call \in Calls : /\ call[1] = u
                               /\ Outcome(call).status = "already_answered"

\* C3 as stated: a call by a user who already has a Response for the
\* question it resolves to returns already_answered.
C3_AlwaysAlreadyAnswered ==
    \A call \in Calls :
        LET res == Outcome(call)
        IN (\E r \in ResponsesOf(res.question) : responses[r].user_id = call[1])
            => res.status = "already_answered"

\* C3 amended: such a call returns already_answered when the question has no
\* correct Response and already_solved when it has one; either way it writes
\* no Response and changes no user row.
C3_RepeatIsTerminal ==
    \A call \in Calls :
        LET res == Outcome(call)
        IN (\E r \in ResponsesOf(res.question) : responses[r].user_id = call[1])
            => /\ res.status = IF CorrectResponses(res.question) = {}
                               THEN "already_answered" ELSE "already_solved"
               /\ res.users = users
               /\ res.responses = responses

\* The winner of a question can click one of its buttons again.
C3_Witness ==
    \E call \in ButtonCalls :
        \E r \in CorrectResponses(call[5]) : responses[r].user_id = call[1]

\* C4: a call that returns correct adds Award to the caller's score and 1 to
\* their correct count and changes no other counter of any user; every call
\* the same user makes for that question afterwards changes no user row and
\* no Response.
C4_ScoringIdempotent ==
    \A call \in Calls :
        LET res == Outcome(call)
            u == call[1]
        IN /\ res.status = "correct" =>
                /\ DOMAIN res.users = DOMAIN users \cup {u}
                /\ res.users[u].score = Score(u) + Award
                /\ res.users[u].correct = Correct(u) + 1
                /\ res.users[u].wrong = Wrong(u)
                /\ \A o \in DOMAIN users \ {u} : res.users[o] = users[o]
           /\ <<res.question, u>> \in credited =>
                /\ res.users = users
                /\ res.responses = responses

\* A user who has been credited for a question, and who had answered another
\* one before, can call again for the question they won.
C4_Witness ==
    \E call \in Calls :
        /\ <<Outcome(call).question, call[1]>> \in credited
        /\ users[call[1]].wrong = 1
        /\ users[call[1]].score = Award

\* C6: once a call has returned correct for question Q and user W, every call
\* that resolves to Q, by a button of Q or through the channel, returns
\* already_solved with solver W, writes no Response and changes no user row.
C6_SolvedStaysSolved ==
    \A call \in Calls :
        LET res == Outcome(call)
        IN \A w \in Users :
            <<res.question, w>> \in credited =>
                /\ res.status = "already_solved"
                /\ res.solver_id = w
                /\ res.users = users
                /\ res.responses = responses

\* A won question is no longer tracked, its channel tracks a newer question,
\* and its buttons are still on screen for another user.
C6_Witness ==
    \E call \in ButtonCalls :
        LET q == call[5]
        IN /\ \E w \in Users \ {call[1]} : <<q, w>> \in credited
           /\ Get(active_questions, questions[q].channel_id) \notin {q, NoId}

\* Task t is between the generation of its question and the registration of
\* it as its channel's active question.
InSection(t) == task[t].pc \in {"sending", "delivered"}

\* C7: two publish invocations for one channel never both hold a stored
\* question that is yet to be registered, and the question an invocation is
\* about to register is the newest one stored for its channel.
C7_NoPublishRace ==
    \A t \in Tasks :
        InSection(t) =>
            /\ get_latest_question_for_channel(task[t].channel) = task[t].qid
            /\ \A o \in Tasks \ {t} :
                InSection(o) => task[o].channel # task[t].channel

\* One invocation is sending for a channel while a second one for the same
\* channel waits.
C7_Witness ==
    \E t \in Tasks, o \in Tasks :
        /\ InSection(t)
        /\ task[o].pc = "waiting"
        /\ task[o].channel = task[t].channel

\* C8: at no time are two publish invocations, for whatever channels,
\* between generation and registration.
C8_PublishSerialized ==
    Cardinality({t \in Tasks : InSection(t)}) <= 1

\* One invocation is sending while another, for a different channel, waits.
C8_Witness ==
    \E t \in Tasks, o \in Tasks :
        /\ InSection(t)
        /\ task[o].pc = "waiting"
        /\ task[o].channel # task[t].channel

\* The latest question of the channel among those nobody has won and that are
\* younger than a day, NoId when there is none.
LatestUnsolvedFresh(channel_id) ==
    LET mine == {q \in QuestionIds :
                    /\ questions[q].channel_id = channel_id
                    /\ Days(now - questions[q].created_at) < 1
                    /\ CorrectResponses(q) = {}}
    IN IF mine = {} THEN NoId
       ELSE CHOOSE q \in mine : \A o \in mine \ {q} :
                Before(questions[o].created_at, o, questions[q].created_at, q)

\* C5 as stated: whatever the tables hold, hydrating (every channel known) and
\* then resolving a channel gives the latest unsolved question of the channel
\* created within the freshness window.
C5_HydrateThenResolve ==
    \A c \in Channels :
        ResolveWith(Hydrate(Channels), c).question = LatestUnsolvedFresh(c)

\* C9 as stated: generate_question never raises, whatever the backends do.
C9_NeverRaises == gen.pc # "raised"

\* C10 as stated: a returned payload has exactly four options and an answer
\* among A-D.
C10_FourOptions ==
    gen.pc = "returned" =>
        /\ Cardinality(gen.out.options) = 4
        /\ gen.out.answer \in AnswerLetters

\* C11 as stated: a payload that comes from a backend has exactly the option
\* keys A, B, C, D and an answer among A-D.
C11_OnlyABCD ==
    (gen.pc = "returned" /\ gen.out.model_name \in Models) =>
        /\ gen.out.options = AnswerLetters
        /\ gen.out.answer \in AnswerLetters

C13_BoundedDistinctAttempts ==
    /\ Len(gen.calls) <= gen.max_retries
    /\ Len(gen.models_to_try) <= gen.max_retries
    /\ gen.attempt <= Len(gen.models_to_try) + 1
    /\ \A i, j \in DOMAIN gen.calls : i # j => gen.calls[i] # gen.calls[j]

\* C14: whatever the case and the spaces around it, a letter of A-D alone,
\* followed by ")", or after "Option " or "choice ", normalises to that
\* letter; "1".."4" normalise to A..D in that order; "banana" normalises to
\* "BANANA", which is no letter of A-D.
C14_Normalised ==
    norm.pc = "returned" =>
        /\ (/\ \E c \in TypedLetters : norm.body = <<c>>
            /\ norm.prefix = <<>> \/ norm.suffix = <<>>)
                => /\ norm.out = upper(norm.body)
                   /\ norm.out \in AnswerLetters
        /\ (/\ \E d \in DOMAIN Digits : norm.body = <<Digits[d]>>
            /\ norm.prefix = <<>> /\ norm.suffix = <<>>)
                => \E d \in DOMAIN Digits : /\ norm.body = <<Digits[d]>>
                                            /\ norm.out = <<LetterOf[d]>>
        /\ (norm.body = Banana /\ norm.prefix = <<>> /\ norm.suffix = <<>>)
                => /\ norm.out = <<"B", "A", "N", "A", "N", "A">>
                   /\ norm.out \notin AnswerLetters

\* " b)\n" was typed and the call returned.
C14_Witness ==
    /\ norm.pc = "returned"
    /\ norm.answer = <<" ", "b", ")", " ", "\n">>

\* C15 as stated: a message whose token normalises to no letter of A-D, typed
\* by a user who has not answered the open question of the channel, is
\* recorded as a wrong answer: the outcome is incorrect, a Response with
\* is_correct = 0 is added and the user's wrong count grows by 1.
C15_UnrecognizedIsIncorrect ==
    \A u \in Users, n \in Names, c \in Channels, content \in MessageContents :
        LET res == MessageResult(u, n, content, c)
            question == ResolveQuestion(c).question
        IN (/\ normalise_answer(content) \notin AnswerLetters
            /\ question # NoId
            /\ CorrectResponses(question) = {}
            /\ ~\E r \in ResponsesOf(question) : responses[r].user_id = u)
            => /\ res.status = "incorrect"
               /\ Len(res.responses) = Len(responses) + 1
               /\ res.responses[Len(res.responses)].is_correct = 0
               /\ u \in DOMAIN res.users
               /\ res.users[u].wrong = Wrong(u) + 1

\* C16: a call that returns incorrect adds 1 to the caller's wrong count,
\* leaves their score and correct count and every other user as they were,
\* and removes or changes no entry of the active-question index: the question
\* stays the one its channel tracks.
C16_IncorrectKeepsTracking ==
    \A call \in Calls :
        LET res == Outcome(call)
            u == call[1]
        IN res.status = "incorrect" =>
            /\ res.users[u].wrong = Wrong(u) + 1
            /\ res.users[u].score = Score(u)
            /\ res.users[u].correct = Correct(u)
            /\ \A o \in DOMAIN users \ {u} : res.users[o] = users[o]
            /\ \A c \in DOMAIN active_questions :
                    Get(res.active, c) = active_questions[c]
            /\ call[5] = NoId => Get(res.active, call[4]) = res.question

\* A user with points can answer wrong a question its channel tracks, while
\* the other channel tracks a question too.
C16_Witness ==
    /\ Cardinality(DOMAIN active_questions) = 2
    /\ \E call \in MessageCalls :
        /\ Outcome(call).status = "incorrect"
        /\ Score(call[1]) = Award

\* C17: when a call returns correct for a question of channel c, the index
\* the call leaves behind tracks nothing for c.
C17_CorrectClearsTracking ==
    \A call \in Calls :
        LET res == Outcome(call)
        IN res.status = "correct" =>
            Get(res.active, questions[res.question].channel_id) = NoId

\* A correct answer is possible for the question a channel tracks.
C17_Witness ==
    \E call \in Calls :
        /\ Outcome(call).status = "correct"
        /\ Get(active_questions, call[4]) = Outcome(call).question

\* C18: a call for a question that has a correct Response returns
\* already_solved, also for a user who answered it wrongly before;
\* already_answered is returned only for a question without a correct
\* Response; a Response is written only when the question has no correct
\* Response and the caller none for it.
C18_OutcomePriority ==
    \A call \in Calls :
        LET res == Outcome(call)
            mine == {r \in ResponsesOf(res.question) : responses[r].user_id = call[1]}
        IN res.question # NoId =>
            /\ CorrectResponses(res.question) # {} => res.status = "already_solved"
            /\ res.status = "already_answered" =>
                    CorrectResponses(res.question) = {} /\ mine # {}
            /\ (res.responses # responses \/ res.status \in {"correct", "incorrect"}) =>
                    CorrectResponses(res.question) = {} /\ mine = {}

\* A user who answered a question wrongly can call again after another user
\* has won it.
C18_Witness ==
    \E call \in Calls :
        LET q == Outcome(call).question
        IN /\ q # NoId
           /\ CorrectResponses(q) # {}
           /\ \E r \in ResponsesOf(q) : /\ responses[r].user_id = call[1]
                                        /\ responses[r].is_correct = 0

\* C19: a call returns no_question only when its question id resolves to no
\* stored question and its channel has neither a tracked nor a latest
\* question; such a call writes no Response and changes no user row.
C19_NoQuestionOnlyWhenNone ==
    \A call \in Calls :
        LET res == Outcome(call)
        IN res.status = "no_question" =>
            /\ get_question(call[5]) = NoId
            /\ Get(active_questions, call[4]) = NoId
            /\ get_latest_question_for_channel(call[4]) = NoId
            /\ res.users = users
            /\ res.responses = responses

\* A message in a channel without a question, while the other channel has
\* one that was answered.
C19_Witness ==
    /\ responses # <<>>
    /\ \E call \in MessageCalls : Outcome(call).status = "no_question"

\* The names a record_response call may carry for a user who has a row.
CallNames == Names \cup {"renamed"}

\* C20: record_response for a (question, user) pair that has a Response
\* raises, and leaves every user row (score, correct, wrong, name,
\* last_answer_time) and the Responses as they were.
C20_DuplicateRejected ==
    \A q \in QuestionIds, u \in Users, n \in CallNames, a \in Choices,
       is_correct \in BOOLEAN :
        (\E r \in ResponsesOf(q) : responses[r].user_id = u) =>
            LET rec == record_response(q, u, n, a, is_correct)
            IN /\ rec.raised
               /\ rec.users = users
               /\ rec.responses = responses

\* Two users have answered one question, one of them correctly.
C20_Witness ==
    \E q \in QuestionIds :
        /\ Cardinality({responses[r].user_id : r \in ResponsesOf(q)}) = 2
        /\ \E r \in ResponsesOf(q) : responses[r].is_correct = 1
        /\ \E r \in ResponsesOf(q) : responses[r].is_correct = 0

\* C21: hydration over the channels `known` marks the latest stored question
\* of a known channel active exactly when it is less than a day old and has
\* no correct Response, and leaves every other channel without an active
\* question.
C21_HydrateExactly ==
    \A known \in SUBSET Channels, c \in Channels :
        LET latest == get_latest_question_for_channel(c)
            marked == /\ c \in known
                      /\ latest # NoId
                      /\ now - questions[latest].created_at < DayTicks
                      /\ CorrectResponses(latest) = {}
        IN /\ marked => Get(Hydrate(known), c) = latest
           /\ ~marked => Get(Hydrate(known), c) = NoId

\* The process has started again with one channel whose latest question is
\* open and fresh, and one whose latest question is a day old.
C21_Witness ==
    /\ views = {}
    /\ \E c, d \in Channels :
        /\ Get(active_questions, c) = get_latest_question_for_channel(c)
        /\ Get(active_questions, c) # NoId
        /\ Get(active_questions, d) = NoId
        /\ get_latest_question_for_channel(d) # NoId
        /\ now - questions[get_latest_question_for_channel(d)].created_at >= DayTicks
        /\ active_questions = Hydrate(Channels)

\* C22 as stated: a question the index tracks for a channel has no correct
\* Response and is less than a day old.
C22_ActiveUnsolvedFresh ==
    \A c \in DOMAIN active_questions :
        /\ CorrectResponses(active_questions[c]) = {}
        /\ now - questions[active_questions[c]].created_at < DayTicks

\* C23: resolving a channel returns the question the index tracks for it and
\* leaves the index alone; without a tracked question it returns the latest
\* stored question of the channel and records it in the index; it returns
\* nothing only for a channel without a stored question.
C23_ResolveActive ==
    \A c \in Channels :
        LET res == ResolveQuestion(c)
            stored == {q \in QuestionIds : questions[q].channel_id = c}
        IN /\ c \in DOMAIN active_questions =>
                /\ res.question = active_questions[c]
                /\ res.active = active_questions
           /\ (c \notin DOMAIN active_questions /\ stored # {}) =>
                /\ res.question \in stored
                /\ \A o \in stored \ {res.question} :
                        Before(questions[o].created_at, o,
                               questions[res.question].created_at, res.question)
                /\ DOMAIN res.active = DOMAIN active_questions \cup {c}
                /\ res.active[c] = res.question
                /\ \A d \in DOMAIN active_questions : res.active[d] = active_questions[d]
           /\ res.question = NoId <=> stored = {}

\* A channel holds two questions, the later of them won, and the index
\* tracks none of them.
C23_Witness ==
    \E c \in Channels :
        /\ c \notin DOMAIN active_questions
        /\ Cardinality({q \in QuestionIds : questions[q].channel_id = c}) = 2
        /\ CorrectResponses(get_latest_question_for_channel(c)) # {}

\* C24 as stated: from the moment the send of the announcing message starts,
\* the channel's active question is the new id; the message id is attached
\* only after the send has returned.
C24_PublishOrder ==
    \A t \in Tasks :
        task[t].pc \in {"sending", "delivered"} =>
            /\ Get(active_questions, task[t].channel) = task[t].qid
            /\ questions[task[t].qid].message_id = NoId

\* A stored question without a message id that no running publish holds: its
\* publish was cut off by a stop of the process, or its send failed.
LeftBehind(q) ==
    /\ questions[q].message_id = NoId
    /\ \A t \in Tasks : task[t].qid # q

\* C25: a question left behind without a message id stays without one, and
\* the process starting again registers it for its channel when it is the
\* channel's latest question, less than a day old and without a correct
\* Response.
C25_LeftBehindTolerated ==
    [][\A q \in QuestionIds :
        LeftBehind(q) =>
            /\ questions'[q].message_id = NoId
            /\ \A known \in SUBSET Channels :
                (/\ Restart(known)
                 /\ questions[q].channel_id \in known
                 /\ get_latest_question_for_channel(questions[q].channel_id) = q
                 /\ now - questions[q].created_at < DayTicks
                 /\ CorrectResponses(q) = {})
                    => Get(active_questions', questions[q].channel_id) = q]_vars

\* The process has started again while a publish was suspended in its send,
\* and the index tracks the question that publish had stored.
C25_Witness ==
    \E q \in QuestionIds :
        /\ LeftBehind(q)
        /\ views = {}
        /\ \A t \in Tasks : task[t].pc = "idle"
        /\ active_questions = Hydrate(Channels)
        /\ Get(active_questions, questions[q].channel_id) = q

\* C27: get_leaderboard(limit) returns at most `limit` users, each once, in
\* the order of score descending and, for equal scores, correct descending,
\* and no user it leaves out ranks above one it returns.
C27_Leaderboard ==
    \A limit \in Limits : \A board \in get_leaderboard(limit) :
        /\ Len(board) <= limit
        /\ Len(board) = limit \/ Len(board) = Cardinality(DOMAIN users)
        /\ \A i \in DOMAIN board : board[i] \in DOMAIN users
        /\ \A i, j \in DOMAIN board : i < j =>
                /\ board[i] # board[j]
                /\ \/ users[board[i]].score > users[board[j]].score
                   \/ /\ users[board[i]].score = users[board[j]].score
                      /\ users[board[i]].correct >= users[board[j]].correct
        /\ \A u \in DOMAIN users \ {board[i] : i \in DOMAIN board} :
                \A i \in DOMAIN board :
                    \/ users[board[i]].score > users[u].score
                    \/ /\ users[board[i]].score = users[u].score
                       /\ users[board[i]].correct >= users[u].correct

\* Two users have a row, one with points and one without.
C27_Witness ==
    /\ Cardinality(DOMAIN users) = 2
    /\ \E u, v \in DOMAIN users : users[u].score > users[v].score

\* C28: no step removes a User row; a reset sets score, correct and wrong of
\* every user to zero and changes neither the set of users, nor a name, nor a
\* Response, so a user who had answered a question still has answered it.
C28_UsersKept ==
    [][/\ DOMAIN users \subseteq DOMAIN users'
       /\ ResetScores =>
            /\ DOMAIN users' = DOMAIN users
            /\ \A u \in DOMAIN users :
                /\ users'[u].name = users[u].name
                /\ users'[u].score = 0
                /\ users'[u].correct = 0
                /\ users'[u].wrong = 0
            /\ responses' = responses
            /\ \A q \in QuestionIds, u \in Users :
                (\E r \in ResponsesOf(q) : responses[r].user_id = u) =>
                    (\E r \in 1..Len(responses') :
                        /\ responses'[r].question_id = q
                        /\ responses'[r].user_id = u)]_vars

\* Scores were reset after a question was won: the winner has a row without
\* points.
C28_Witness ==
    \E pair \in credited :
        /\ pair[2] \in DOMAIN users
        /\ users[pair[2]].score = 0
        /\ users[pair[2]].correct = 0

\* C30: the score of every user is Award times their correct count.
C30_ScoreIsTenTimesCorrect ==
    \A u \in DOMAIN users : users[u].score = Award * users[u].correct

\* A user has won two questions.
C30_Witness ==
    \E u \in DOMAIN users : users[u].correct = 2

\* The guilds the dispatch run has dealt with.
Visited == dispatch.skipped \cup {dispatch.published[i] : i \in DOMAIN dispatch.published}

\* C26 as stated: in a dispatch run that passes over a guild without a
\* channel, once the run is over every guild it did not pass over has had
\* exactly one publish, and no guild with a usable channel is left out.
C26_SkipDoesNotAbort ==
    (dispatch.pc \in {"done", "raised"} /\ dispatch.skipped # {}) =>
        /\ \A g \in Visited \ dispatch.skipped :
            Cardinality({i \in DOMAIN dispatch.published :
                            dispatch.published[i] = g}) = 1
        /\ \A g \in Guilds \ Visited : FoundChannel(g) = NoId

\* The keyword arguments update_guild_config is called with.
ConfigUpdates ==
    {[key \in {"daily_channel_id"} |-> c] : c \in Channels}
        \cup {[key \in {"admin_role_id"} |-> r] : r \in Roles}

\* C29: update_guild_config changes the fields it is passed, for that guild
\* only, and leaves the guild's other field and every other guild's row as
\* they were; a guild never configured reads back with daily channel and
\* admin role unset.
C29_PartialUpdate ==
    /\ \A g \in Guilds, kwargs \in ConfigUpdates :
        LET table == update_guild_config(g, kwargs)
            old == IF g \in DOMAIN guild_config THEN guild_config[g]
                   ELSE [daily_channel_id |-> NoId, admin_role_id |-> NoId]
        IN /\ DOMAIN table = DOMAIN guild_config \cup {g}
           /\ \A key \in {"daily_channel_id", "admin_role_id"} :
                table[g][key] = IF key \in DOMAIN kwargs THEN kwargs[key]
                                ELSE old[key]
           /\ \A h \in DOMAIN guild_config \ {g} : table[h] = guild_config[h]
    /\ \A g \in Guilds \ DOMAIN guild_config :
        /\ get_guild_config(g).config.daily_channel_id = NoId
        /\ get_guild_config(g).config.admin_role_id = NoId

\* A guild has a daily channel and an admin role, another guild has the
\* default row, and a third has none.
C29_Witness ==
    \E g, h \in DOMAIN guild_config :
        /\ guild_config[g].daily_channel_id # NoId
        /\ guild_config[g].admin_role_id # NoId
        /\ guild_config[h].daily_channel_id = NoId
        /\ guild_config[h].admin_role_id = NoId
        /\ DOMAIN guild_config # Guilds

\* The rows of table responses of one user with the given is_correct.
ResponsesBy(u, is_correct) ==
    {r \in ResponseIds : /\ responses[r].user_id = u
                         /\ responses[r].is_correct = is_correct}

\* Every user's counters are the numbers of their rows in table responses.
CountsMatch ==
    \A u \in Users : /\ Correct(u) = Cardinality(ResponsesBy(u, 1))
                     /\ Wrong(u) = Cardinality(ResponsesBy(u, 0))

\* C31: as long as no admin reset has run, each user's correct count is the
\* number of their Responses with is_correct = true and their wrong count
\* the number of those with is_correct = false: it is so at the start, and
\* every step that is not a reset keeps it so.
C31_CountsMatchResponses ==
    CountsMatch /\ [][(CountsMatch /\ ~ResetScores) => CountsMatch']_vars

\* A user has answered one question wrongly and another correctly, and the
\* counters say so.
C31_Witness ==
    /\ CountsMatch
    /\ \E u \in Users : /\ Cardinality(ResponsesBy(u, 1)) = 1
                        /\ Cardinality(ResponsesBy(u, 0)) = 1

\* C32 as stated: a click on a button of question Q removes the entry of
\* Q's channel from the active-question index only when the entry is Q.
C32_HintClearsOnlyItsOwn ==
    \A call \in ButtonCalls :
        LET channel_id == call[4]
        IN (/\ channel_id \in DOMAIN active_questions
            /\ channel_id \notin DOMAIN Outcome(call).active)
                => active_questions[channel_id] = call[5]

\* C38 as stated: with no publish in progress, a channel whose active
\* question is unsolved and less than a day old gets the same active
\* question from a hydration that knows every channel.
C38_HydrateRestoresActive ==
    (\A t \in Tasks : task[t].pc = "idle") =>
        \A c \in DOMAIN active_questions :
            LET q == active_questions[c]
            IN (/\ get_first_correct_response(q) = NoId
                /\ Days(now - questions[q].created_at) < 1)
                    => Get(Hydrate(Channels), c) = q

\* C39: whenever the active-question index maps channel c to a question id,
\* that question is in table questions and its channel_id is c.
C39_ActiveIsOfItsChannel ==
    \A c \in DOMAIN active_questions :
        /\ active_questions[c] \in QuestionIds
        /\ questions[active_questions[c]].channel_id = c

\* Both channels are tracked, each with a question of its own, and one of
\* them not with the question stored last.
C39_Witness ==
    /\ DOMAIN active_questions = Channels
    /\ \E c \in Channels : active_questions[c] # Len(questions)

\* C40 as stated: what normalise_answer returns, it returns unchanged when
\* called on it again.
C40_Idempotent ==
    norm.pc = "returned" => normalise_answer(norm.out) = norm.out

\* C33 as stated: while the publish call that stored a question has not yet
\* come back from the send and registered it, table responses holds no
\* row for that question.
C33_NoResponseBeforeAnnounced ==
    \A t \in Tasks :
        task[t].pc \in {"sending", "delivered"} => ResponsesOf(task[t].qid) = {}

\* C36 as stated: when a dispatch run is over and the send of one of its
\* publishes has failed (its question is left without a message id), every
\* guild with a usable channel has still been dealt with in that run.
C36_FailedPublishDoesNotAbort ==
    (/\ dispatch.pc \in {"done", "raised"}
     /\ \E q \in QuestionIds : questions[q].message_id = NoId)
        => \A g \in Guilds \ Visited : FoundChannel(g) = NoId

\* C37: the publish lock is held only by an invocation that is between
\* taking it and leaving publish_question, whichever way it leaves; and
\* every invocation that waits for the lock gets past the wait.
C37_LockReleased ==
    /\ [](publish_lock => \E t \in Tasks : task[t].pc \in {"sending", "delivered"})
    /\ \A t \in Tasks : (task[t].pc = "waiting") ~> (task[t].pc # "waiting")

\* A send has failed (its question is left without a message id, and no
\* invocation is working on it) and a later invocation holds the lock.
C37_Witness ==
    \E q \in QuestionIds, t \in Tasks :
        /\ questions[q].message_id = NoId
        /\ \A o \in Tasks : task[o].qid # q
        /\ task[t].pc = "sending"
        /\ task[t].qid > q
        /\ publish_lock

\* C34 as stated: the view cleanup of a plain-text answer never unregisters
\* the view of a question published later than the one it adjudicated.
C34_CleanupSparesLaterView ==
    [][MessageCleanup =>
        ~(Get(active_views, handler.channel) > handler.question)]_vars

\* C35 as stated: of two manual requests for the same channel that arrive
\* less than QUESTION_COOLDOWN_SECONDS apart, at most one publishes.
C35_CooldownHolds ==
    \A i, j \in DOMAIN published :
        (/\ i < j
         /\ published[i].channel = published[j].channel
         /\ published[i].request.status = "accepted"
         /\ published[j].request.status = "accepted")
            => \/ published[j].request.asked - published[i].request.asked
                    >= QUESTION_COOLDOWN_SECONDS
               \/ published[i].request.asked - published[j].request.asked
                    >= QUESTION_COOLDOWN_SECONDS

====
